---- MODULE Spec2Model ----
(***************************************************************************)
(* Buffer ownership and oneshot read/write operations of tokio-uring:      *)
(* src/buf/mod.rs (the multi-region Buffer), src/io/read_write.rs,         *)
(* src/io/read.rs and src/io/write.rs (operation constructors and their    *)
(* completion transforms).  The reactor, SharedFd and WithBuffer are not   *)
(* part of these files; they are modelled from the specification.          *)
(***************************************************************************)
EXTENDS Integers, Sequences, FiniteSets, TLC

\* ------------------------------------------------------------------ bounds
MaxCap == 2
MaxRegions == 2
MaxErrno == 2
MaxOps == 2
MaxHandles == 2
\* Operations the tests of the driver start (50 and 600 there).
MaxSpawn == 5

\* tests/driver.rs: the rings of completion_overflow.
squeue_entries == 2
cqueue_entries == 2 * squeue_entries

\* Heap addresses an owned array (Vec<u8>) can be given by the allocator.
NVecAddrs == MaxRegions + MaxOps
VecAddrs == 1..NVecAddrs
\* Externally owned memory handed to from_raw_ptr.
RawAddrs == {NVecAddrs + 1}
Addrs == VecAddrs \cup RawAddrs
\* The heap block of a Buffer's Vec<libc::iovec> (what iovecs.as_ptr() returns).
ListAddrBase == NVecAddrs + 2
Offsets == {0}

VARIABLES
    buf,        \* the Buffer the caller holds: <<>> or <<b>>
    dep,        \* what the last constructor was given: a sequence of Vecs
    ctor,       \* which constructor built the Buffer, while nothing has touched
                \* it since: "vec", "vecs", "raw"; "none" once it was touched
    setPos,     \* the argument of set_init, if that was the last call on the held
                \* Buffer; -1 otherwise
    conv,       \* the result of the last TryFrom: <<>> or <<r>>
    ops,        \* operation slots: unsubmitted / in flight / completed
    mem,        \* per address: who is responsible for the memory
    fdHandles,  \* SharedFd handles the caller holds
    fdStrong,   \* the SharedFd's reference count
    fdReleased, \* how many times the descriptor was released
    overflow_checks,  \* the build: are integer overflows checked (debug) or not
    xf,         \* the last transform applied to a raw result: <<>> or <<r>>
    uring,      \* the rings and the kernel: sq, inflight, cq, overflow
    slab,       \* the driver's table of operations, by index (the user_data)
    task,       \* the futures of the driver tests, by index
    rt          \* the runtime: "running", "closing", "stopped"

vars == <<buf, dep, ctor, setPos, conv, ops, mem, fdHandles, fdStrong, fdReleased,
          overflow_checks, xf, uring, slab, task, rt>>

\* The driver and its rings.
driver == <<uring, slab, task, rt>>

\* What the Buffer, the operations and the descriptor handle leave alone.
rest == <<overflow_checks, xf, driver>>

\* What the driver leaves alone.
core == <<buf, dep, ctor, setPos, conv, ops, mem, fdHandles, fdStrong, fdReleased,
          overflow_checks, xf>>

\* The range of i32, the type of a completion's result.
I32Min == (0 - 2^30) - 2^30
I32Max == (2^30 - 1) + 2^30

\* ------------------------------------------------------------ plain helpers
Min(a, b) == IF a <= b THEN a ELSE b

RECURSIVE SumSeq(_)
SumSeq(s) == IF s = <<>> THEN 0 ELSE Head(s) + SumSeq(Tail(s))

\* ------------------------------------------------------------------ values
\* A Vec<u8>: heap pointer, length, capacity (len <= cap).
Vec(p, l, c) == [ptr |-> p, len |-> l, cap |-> c]

Iovec(base, l) == [iov_base |-> base, iov_len |-> l]

BufferState(total_bytes, dtor, source) ==
    [total_bytes |-> total_bytes, dtor |-> dtor, source |-> source]

\* Buffer::new.  iovecs_ptr is the address of the iovecs vector's heap block.
Buffer(iovecs, state, lp) == [iovecs |-> iovecs, state |-> state, iovecs_ptr |-> lp]

BufferLen(b) == Len(b.iovecs)

\* The address the allocator gave the Vec<libc::iovec> of a new Buffer.
ListAddr(iovecs) ==
    IF iovecs = <<>> THEN ListAddrBase ELSE ListAddrBase + iovecs[1].iov_base

\* ----------------------------------------------------------- Buffer methods
\* Mutant: fill collects the descriptors into a new vector, at another address.
fill_collect(b) ==
    [iovecs |-> [i \in 1..Len(b.iovecs) |->
                    IF i <= Len(b.state)
                    THEN [b.iovecs[i] EXCEPT !.iov_len = b.state[i].total_bytes]
                    ELSE b.iovecs[i]],
     state |-> b.state,
     iovecs_ptr |-> b.iovecs_ptr + 1]

\* Buffer::fill: zip stops at the shorter of the two sequences.
fill(b) ==
    [b EXCEPT !.iovecs =
        [i \in 1..Len(b.iovecs) |->
            IF i <= Len(b.state)
            THEN [b.iovecs[i] EXCEPT !.iov_len = b.state[i].total_bytes]
            ELSE b.iovecs[i]]]

\* The loop of set_init from region i on, with `pos` bytes still to attribute.
RECURSIVE SetInitFrom(_, _, _, _)
SetInitFrom(iovecs, state, i, pos) ==
    IF i > Len(iovecs) \/ i > Len(state) THEN iovecs
    ELSE LET size == Min(state[i].total_bytes, pos)
         IN  SetInitFrom([iovecs EXCEPT ![i].iov_len = size], state, i + 1, pos - size)

\* Mutant: `pos` is not reduced by what earlier regions took.
set_init_no_carry(b, pos) ==
    [b EXCEPT !.iovecs =
        [i \in 1..Len(b.iovecs) |->
            [b.iovecs[i] EXCEPT !.iov_len = Min(b.state[i].total_bytes, pos)]]]

\* Mutant: the first region takes `pos` whole, without the cap at its capacity.
set_init_unclamped(b, pos) ==
    [b EXCEPT !.iovecs =
        [i \in 1..Len(b.iovecs) |->
            [b.iovecs[i] EXCEPT !.iov_len = IF i = 1 THEN pos ELSE 0]]]

\* Mutant: the capacity recorded for a region is cut down to what was set.
set_init_shrinks_capacity(b, pos) ==
    LET iovecs == SetInitFrom(b.iovecs, b.state, 1, pos)
    IN  [b EXCEPT !.iovecs = iovecs,
                  !.state = [i \in 1..Len(b.state) |->
                                [b.state[i] EXCEPT !.total_bytes = iovecs[i].iov_len]]]

set_init(b, pos) == [b EXCEPT !.iovecs = SetInitFrom(b.iovecs, b.state, 1, pos)]

bytes_init(b) == SumSeq([i \in 1..Len(b.iovecs) |-> b.iovecs[i].iov_len])

bytes_total(b) == SumSeq([i \in 1..Len(b.state) |-> b.state[i].total_bytes])

\* Mutant: the address of the descriptor list, whatever the number of regions.
stable_ptr_list_always(b) == b.iovecs_ptr

stable_ptr(b) ==
    IF Len(b.state) = 1 THEN b.iovecs[1].iov_base ELSE b.iovecs_ptr

stable_mut_ptr(b) ==
    IF Len(b.state) = 1 THEN b.iovecs[1].iov_base ELSE b.iovecs_ptr

\* ------------------------------------------------------------- constructors
\* Mutant: the region's reported length is taken from the capacity.
FromVecLenIsCap(v) ==
    LET iov == Iovec(v.ptr, v.cap)
        state == BufferState(v.cap, "drop_vec", "Vector")
    IN  Buffer(<<iov>>, <<state>>, ListAddr(<<iov>>))

\* From<Vec<u8>> for Buffer
FromVec(v) ==
    LET iov == Iovec(v.ptr, v.len)
        state == BufferState(v.cap, "drop_vec", "Vector")
    IN  Buffer(<<iov>>, <<state>>, ListAddr(<<iov>>))

\* Mutant: the metadata entries are pushed in the opposite order.
FromVecsStatesReversed(vs) ==
    LET iovecs == [i \in 1..Len(vs) |-> Iovec(vs[i].ptr, vs[i].len)]
        states == [i \in 1..Len(vs) |->
                      BufferState(vs[Len(vs) + 1 - i].cap, "drop_vec", "Vector")]
    IN  Buffer(iovecs, states, ListAddr(iovecs))

\* From<Vec<Vec<u8>>> for Buffer
FromVecs(vs) ==
    LET iovecs == [i \in 1..Len(vs) |-> Iovec(vs[i].ptr, vs[i].len)]
        states == [i \in 1..Len(vs) |-> BufferState(vs[i].cap, "drop_vec", "Vector")]
    IN  Buffer(iovecs, states, ListAddr(iovecs))

\* Buffer::from_raw_ptr
from_raw_ptr(ptr, l) ==
    LET iov == Iovec(ptr, l)
        state == BufferState(l, "drop_raw_ptr", "RawPtr")
    IN  Buffer(<<iov>>, <<state>>, ListAddr(<<iov>>))

\* -------------------------------------------------------------- finalizers
FreeMem == [st |-> "free", cap |-> 0]

\* drop_vec: Vec::from_raw_parts(base, iov_len, total_bytes) is built and dropped,
\* which deallocates the block at `base` as one of capacity total_bytes.  A block
\* that is not suspended in a Buffer, or has another capacity, is corrupted.
drop_vec(m, iovec, total_bytes) ==
    [m EXCEPT ![iovec.iov_base] =
        IF @.st = "buffer" /\ @.cap = total_bytes THEN FreeMem
        ELSE [st |-> "bad", cap |-> @.cap]]

drop_raw_ptr(m, iovec, total_bytes) == m

\* (state[i].dtor)(iovec[i], state[i].total_bytes): the call through the pointer.
CallDtor(m, dtor, iovec, total_bytes) ==
    IF dtor = "drop_vec" THEN drop_vec(m, iovec, total_bytes)
    ELSE drop_raw_ptr(m, iovec, total_bytes)

\* Drop for Buffer, regions i..len-1 of the loop.
RECURSIVE DropFrom(_, _, _)
DropFrom(m, b, i) ==
    IF i > Len(b.iovecs) THEN m
    ELSE DropFrom(CallDtor(m, b.state[i].dtor, b.iovecs[i], b.state[i].total_bytes),
                  b, i + 1)

DropBuffer(m, b) == DropFrom(m, b, 1)

\* Dropping every Buffer of a sequence, in order.
RECURSIVE DropAll(_, _)
DropAll(m, bs) == IF bs = <<>> THEN m ELSE DropAll(DropBuffer(m, Head(bs)), Tail(bs))

\* Vec::from_raw_parts(ptr, len, cap) kept by the caller: the caller owns the
\* block again.
FromRawParts(m, v) ==
    [m EXCEPT ![v.ptr] =
        IF @.st = "buffer" /\ @.cap = v.cap THEN [st |-> "vec", cap |-> v.cap]
        ELSE [st |-> "bad", cap |-> @.cap]]

RECURSIVE HandBack(_, _)
HandBack(m, vs) == IF vs = <<>> THEN m ELSE HandBack(FromRawParts(m, Head(vs)), Tail(vs))

\* -------------------------------------------------------------- conversions
\* A conversion's result: Ok(vecs) or Err(Error(_, buf)); `dropped` lists the
\* Buffers whose destructor ran inside the call (ManuallyDrop suppresses it on
\* success, the move into Error on failure).
ConvOk(vecs) == [ok |-> TRUE, vecs |-> vecs, err |-> <<>>, dropped |-> <<>>]
ConvErr(b) == [ok |-> FALSE, vecs |-> <<>>, err |-> <<b>>, dropped |-> <<>>]

\* Mutant: the provenance of the region is not looked at.
TryFromVecNoSourceCheck(b) ==
    IF BufferLen(b) # 1 THEN ConvErr(b)
    ELSE ConvOk(<<Vec(b.iovecs[1].iov_base, b.iovecs[1].iov_len, b.state[1].total_bytes)>>)

\* TryFrom<Buffer> for Vec<u8>
TryFromVec(b) ==
    IF BufferLen(b) # 1 THEN ConvErr(b)
    ELSE IF b.state[1].source # "Vector" THEN ConvErr(b)
    ELSE ConvOk(<<Vec(b.iovecs[1].iov_base, b.iovecs[1].iov_len, b.state[1].total_bytes)>>)

\* Mutant: the conversion reconstructs the arrays without ManuallyDrop, so the
\* Buffer's destructor still runs when the call returns.
TryFromVecsRunsDrop(b) ==
    IF \E i \in 1..Len(b.state) : b.state[i].source # "Vector" THEN ConvErr(b)
    ELSE [ok |-> TRUE,
          vecs |-> [i \in 1..Len(b.iovecs) |->
                      Vec(b.iovecs[i].iov_base, b.iovecs[i].iov_len, b.state[i].total_bytes)],
          err |-> <<>>,
          dropped |-> <<b>>]

\* TryFrom<Buffer> for Vec<Vec<u8>>
TryFromVecs(b) ==
    IF \E i \in 1..Len(b.state) : b.state[i].source # "Vector" THEN ConvErr(b)
    ELSE ConvOk([i \in 1..Len(b.iovecs) |->
                    Vec(b.iovecs[i].iov_base, b.iovecs[i].iov_len, b.state[i].total_bytes)])

\* -------------------------------------------------------------- transforms
\* io::Error::from_raw_os_error: the error carries the code it is given.
from_raw_os_error(code) == code

\* Mutant: the result is passed on without the sign change.
neg_i32_identity(n) == <<n>>

\* `-n` on an i32: <<-n>>, except at i32::MIN, whose negation is not an i32:
\* with overflow checks the evaluation panics (<<>>), without them it wraps
\* around to i32::MIN.
neg_i32(n) ==
    IF n = I32Min THEN (IF overflow_checks THEN <<>> ELSE <<I32Min>>)
    ELSE <<0 - n>>

Ok(n) == [ok |-> TRUE, n |-> n, err |-> 0]
Err(e) == [ok |-> FALSE, n |-> 0, err |-> e]

\* WithBuffer::with_buffer: Ok(n) becomes Ok((n, buf)), Err(e) becomes
\* Err(Error(e, buf)).  An outcome's buf is <<b>>, or <<>> if none came back.
with_buffer(res, b) ==
    [ok |-> res.ok, n |-> res.n, err |-> res.err, buf |-> <<b>>, panic |-> FALSE]

\* The transform did not return: it panicked, and the payload it had taken was
\* dropped by the unwinding.
Panicked == [ok |-> FALSE, n |-> 0, err |-> 0, buf |-> <<>>, panic |-> TRUE]

\* Mutant: the failure branch returns the error alone and lets the payload go.
ReadWriteTransformDropsOnError(kind, data, n) ==
    IF n < 0 THEN
        IF neg_i32(n) = <<>> THEN Panicked
        ELSE [ok |-> FALSE, n |-> 0, err |-> from_raw_os_error(neg_i32(n)[1]),
              buf |-> <<>>, panic |-> FALSE]
    ELSE LET b == IF kind = "Read" THEN set_init(data.buf, n) ELSE data.buf
         IN  with_buffer(Ok(n), b)

\* Mutant: the kind is not looked at, set_init runs for a write as well.
ReadWriteTransformAlwaysSetInit(kind, data, n) ==
    IF n < 0 THEN
        IF neg_i32(n) = <<>> THEN Panicked
        ELSE with_buffer(Err(from_raw_os_error(neg_i32(n)[1])), data.buf)
    ELSE with_buffer(Ok(n), set_init(data.buf, n))

\* ReadWriteTransform::transform_oneshot_output; kind is "Read" or "Write".
ReadWriteTransform(kind, data, n) ==
    IF n < 0 THEN
        IF neg_i32(n) = <<>> THEN Panicked
        ELSE with_buffer(Err(from_raw_os_error(neg_i32(n)[1])), data.buf)
    ELSE LET b == IF kind = "Read" THEN set_init(data.buf, n) ELSE data.buf
         IN  with_buffer(Ok(n), b)

\* WriteTransform<T>::transform_oneshot_output
WriteTransform(data, n) ==
    IF n >= 0 THEN with_buffer(Ok(n), data.buf)
    ELSE IF neg_i32(n) = <<>> THEN Panicked
    ELSE with_buffer(Err(from_raw_os_error(neg_i32(n)[1])), data.buf)

\* ReadTransform<T>::transform_oneshot_output
ReadTransform(data, n) ==
    IF n >= 0 THEN with_buffer(Ok(n), set_init(data.buf, n))
    ELSE IF neg_i32(n) = <<>> THEN Panicked
    ELSE with_buffer(Err(from_raw_os_error(neg_i32(n)[1])), data.buf)

\* The transform value stored in an operation, applied to payload and result.
transform_oneshot_output(t, data, n) ==
    CASE t = "ReadWrite_Read" -> ReadWriteTransform("Read", data, n)
      [] t = "ReadWrite_Write" -> ReadWriteTransform("Write", data, n)
      [] t = "Write" -> WriteTransform(data, n)
      [] OTHER -> ReadTransform(data, n)

Transforms == {"ReadWrite_Read", "ReadWrite_Write", "Write", "Read"}
IsRead(t) == t \in {"ReadWrite_Read", "Read"}

\* ---------------------------------------------------- operation constructors
\* Mutant: the payload keeps no strong reference of its own to the descriptor.
StoredDataNoClone(b) == [_fd |-> <<>>, buf |-> b]

\* The payload (ReadWriteData, ReadData, WriteData): one clone of the SharedFd
\* and the Buffer.
StoredData(b) == [_fd |-> <<"clone">>, buf |-> b]

Sqe(opcode, addr, l, offset) == [opcode |-> opcode, addr |-> addr, len |-> l, offset |-> offset]

\* UnsubmittedOneshot::new(data, transform, sqe); arg is the Buffer the
\* constructor was given, kept for comparison with what comes back.
NoOp == [st |-> "none", transform |-> "none", data |-> <<>>, sqe |-> <<>>,
         arg |-> <<>>, calls |-> 0, res |-> 0, out |-> <<>>]

UnsubmittedOneshot(data, transform, sqe, arg) ==
    [st |-> "unsubmitted", transform |-> transform, data |-> <<data>>, sqe |-> <<sqe>>,
     arg |-> <<arg>>, calls |-> 0, res |-> 0, out |-> <<>>]

\* Mutant: the scalar branch is missing, every write is issued as Writev.
write_at_always_writev(b, offset) ==
    UnsubmittedOneshot(StoredData(b), "ReadWrite_Write",
                       Sqe("Writev", stable_ptr(b), BufferLen(b), offset), b)

\* read_write::Unsubmitted::write_at
write_at(b, offset) ==
    LET ptr == stable_ptr(b)
        l == bytes_init(b)
        sqe == IF BufferLen(b) = 1 THEN Sqe("Write", ptr, l, offset)
               ELSE Sqe("Writev", ptr, BufferLen(b), offset)
    IN  UnsubmittedOneshot(StoredData(b), "ReadWrite_Write", sqe, b)

\* Mutant: fill is not called before the descriptor is built.
read_at_no_fill(b, offset) ==
    LET ptr == stable_mut_ptr(b)
        l == bytes_total(b)
        sqe == IF BufferLen(b) = 1 THEN Sqe("Read", ptr, l, offset)
               ELSE Sqe("Readv", ptr, BufferLen(b), offset)
    IN  UnsubmittedOneshot(StoredData(b), "ReadWrite_Read", sqe, b)

\* read_write::Unsubmitted::read_at
read_at(b, offset) ==
    LET ptr == stable_mut_ptr(b)
        l == bytes_total(b)
        filled == fill(b)
        sqe == IF BufferLen(filled) = 1 THEN Sqe("Read", ptr, l, offset)
               ELSE Sqe("Readv", ptr, BufferLen(filled), offset)
    IN  UnsubmittedOneshot(StoredData(filled), "ReadWrite_Read", sqe, b)

\* UnsubmittedWrite<T>::write_at with T = Buffer
UnsubmittedWrite_write_at(b, offset) ==
    UnsubmittedOneshot(StoredData(b), "Write",
                       Sqe("Write", stable_ptr(b), bytes_init(b), offset), b)

\* UnsubmittedRead<T>::read_at with T = Buffer
UnsubmittedRead_read_at(b, offset) ==
    UnsubmittedOneshot(StoredData(b), "Read",
                       Sqe("Read", stable_mut_ptr(b), bytes_total(b), offset), b)

\* The byte counts the kernel can report: at most what the submission asks for
\* (the scalar length, or the sum of the lengths in the descriptor list).
KernelMax(op) ==
    IF op.sqe[1].opcode \in {"Write", "Read"} THEN op.sqe[1].len
    ELSE bytes_init(op.data[1].buf)

KernelResults(op) == ((0 - MaxErrno)..(0 - 1)) \cup (0..KernelMax(op))

\* ---------------------------------------------------------------- SharedFd
\* Dropping k handles of the SharedFd: the descriptor is released when the
\* reference count reaches zero.
DropShared(k) ==
    /\ fdStrong' = fdStrong - k
    /\ fdReleased' = IF k > 0 /\ fdStrong - k = 0 THEN fdReleased + 1 ELSE fdReleased

\* SharedFd::clone by the caller.
CloneFd ==
    /\ fdHandles >= 1
    /\ fdHandles < MaxHandles
    /\ fdHandles' = fdHandles + 1
    /\ fdStrong' = fdStrong + 1
    /\ UNCHANGED <<rest, buf, dep, ctor, setPos, conv, ops, mem, fdReleased>>

\* Drop of a handle the caller holds.
DropFd ==
    /\ fdHandles >= 1
    /\ fdHandles' = fdHandles - 1
    /\ DropShared(1)
    /\ UNCHANGED <<rest, buf, dep, ctor, setPos, conv, ops, mem>>

\* --------------------------------------------------------------- allocator
FreeAddrs == {a \in VecAddrs : mem[a].st = "free"}

\* The k lowest addresses of S, in increasing order.
RECURSIVE Lowest(_, _)
Lowest(S, k) ==
    IF k = 0 THEN <<>>
    ELSE LET a == CHOOSE x \in S : \A y \in S : x <= y
         IN  <<a>> \o Lowest(S \ {a}, k - 1)

\* The blocks of the arrays vs, now suspended in a Buffer (ManuallyDrop).
RECURSIVE Suspend(_, _)
Suspend(m, vs) ==
    IF vs = <<>> THEN m
    ELSE Suspend([m EXCEPT ![Head(vs).ptr] = [st |-> "buffer", cap |-> Head(vs).cap]],
                 Tail(vs))

\* The caller drops owned arrays it holds.
RECURSIVE DropVecs(_, _)
DropVecs(m, vs) ==
    IF vs = <<>> THEN m
    ELSE DropVecs([m EXCEPT ![Head(vs).ptr] =
                      IF @.st = "vec" /\ @.cap = Head(vs).cap THEN FreeMem
                      ELSE [st |-> "bad", cap |-> @.cap]],
                  Tail(vs))

\* (len, cap) of the arrays a caller can pass in.
VecShapes == {s \in [len : 0..MaxCap, cap : 0..MaxCap] : s.len <= s.cap}
ShapeSeqs == UNION {[1..k -> VecShapes] : k \in 0..MaxRegions}

\* ------------------------------------------------- the caller and its Buffer
\* Buffer::from(vec) on a fresh array of the given length and capacity.
NewFromVec(l, c) ==
    /\ buf = <<>>
    /\ FreeAddrs # {}
    /\ LET v == Vec(Lowest(FreeAddrs, 1)[1], l, c)
       IN  /\ buf' = <<FromVec(v)>>
           /\ dep' = <<v>>
           /\ mem' = Suspend(mem, <<v>>)
    /\ ctor' = "vec"
    /\ setPos' = -1
    /\ UNCHANGED <<rest, conv, ops, fdHandles, fdStrong, fdReleased>>

\* Buffer::from(vecs) on fresh arrays of the given lengths and capacities.
NewFromVecs(shapes) ==
    /\ buf = <<>>
    /\ Cardinality(FreeAddrs) >= Len(shapes)
    /\ LET as == Lowest(FreeAddrs, Len(shapes))
           vs == [i \in 1..Len(shapes) |-> Vec(as[i], shapes[i].len, shapes[i].cap)]
       IN  /\ buf' = <<FromVecs(vs)>>
           /\ dep' = vs
           /\ mem' = Suspend(mem, vs)
    /\ ctor' = "vecs"
    /\ setPos' = -1
    /\ UNCHANGED <<rest, conv, ops, fdHandles, fdStrong, fdReleased>>

\* Buffer::from_raw_ptr(ptr, len) on memory the caller keeps responsible for.
NewFromRawPtr(ptr, l) ==
    /\ buf = <<>>
    /\ buf' = <<from_raw_ptr(ptr, l)>>
    /\ dep' = <<Vec(ptr, l, l)>>
    /\ ctor' = "raw"
    /\ setPos' = -1
    /\ UNCHANGED <<rest, conv, ops, mem, fdHandles, fdStrong, fdReleased>>

Fill ==
    /\ buf # <<>>
    /\ buf' = <<fill(buf[1])>>
    /\ dep' = <<>>
    /\ ctor' = "none"
    /\ setPos' = -1
    /\ UNCHANGED <<rest, conv, ops, mem, fdHandles, fdStrong, fdReleased>>

SetInit(pos) ==
    /\ buf # <<>>
    /\ buf' = <<set_init(buf[1], pos)>>
    /\ dep' = <<>>
    /\ ctor' = "none"
    /\ setPos' = pos
    /\ UNCHANGED <<rest, conv, ops, mem, fdHandles, fdStrong, fdReleased>>

\* The caller lets its Buffer go out of scope: Drop for Buffer runs.
DropBuf ==
    /\ buf # <<>>
    /\ mem' = DropBuffer(mem, buf[1])
    /\ buf' = <<>>
    /\ dep' = <<>>
    /\ ctor' = "none"
    /\ setPos' = -1
    /\ UNCHANGED <<rest, conv, ops, fdHandles, fdStrong, fdReleased>>

\* Vec::<u8>::try_from(buf) / Vec::<Vec<u8>>::try_from(buf); `to` says which.
TryInto(to) ==
    /\ buf # <<>>
    /\ conv = <<>>
    /\ LET b == buf[1]
           r == IF to = "vec" THEN TryFromVec(b) ELSE TryFromVecs(b)
       IN  /\ conv' = <<[res |-> r, arg |-> b, to |-> to]>>
           /\ mem' = DropAll(HandBack(mem, r.vecs), r.dropped)
    /\ buf' = <<>>
    /\ UNCHANGED <<rest, dep, ctor, setPos, ops, fdHandles, fdStrong, fdReleased>>

\* The caller consumes the conversion's result: it drops the arrays it got, or
\* takes the Buffer back out of the error.
TakeConv ==
    /\ conv # <<>>
    /\ buf = <<>>
    /\ LET r == conv[1].res
       IN  /\ buf' = r.err
           /\ mem' = DropVecs(mem, r.vecs)
           /\ dep' = IF r.ok THEN <<>> ELSE dep
           /\ ctor' = IF r.ok THEN "none" ELSE ctor
           /\ setPos' = -1
    /\ conv' = <<>>
    /\ UNCHANGED <<rest, ops, fdHandles, fdStrong, fdReleased>>

\* ------------------------------------------------------------- operations
OpIds == 1..MaxOps

\* The caller builds an operation on its Buffer through the SharedFd it holds.
Construct(o, op) ==
    /\ ops[o].st = "none"
    /\ fdHandles >= 1
    /\ ops' = [ops EXCEPT ![o] = op]
    /\ fdStrong' = fdStrong + Len(op.data[1]._fd)
    /\ buf' = <<>>
    /\ dep' = <<>>
    /\ ctor' = "none"
    /\ setPos' = -1
    /\ UNCHANGED <<rest, conv, mem, fdHandles, fdReleased>>

WriteAt(o) == buf # <<>> /\ \E off \in Offsets : Construct(o, write_at(buf[1], off))

ReadAt(o) == buf # <<>> /\ \E off \in Offsets : Construct(o, read_at(buf[1], off))

\* UnsubmittedWrite<T> and UnsubmittedRead<T> take one contiguous buffer T and
\* always issue the scalar opcode: T is a Buffer of one region here.
GenericWriteAt(o) ==
    /\ buf # <<>>
    /\ BufferLen(buf[1]) = 1
    /\ \E off \in Offsets : Construct(o, UnsubmittedWrite_write_at(buf[1], off))

GenericReadAt(o) ==
    /\ buf # <<>>
    /\ BufferLen(buf[1]) = 1
    /\ \E off \in Offsets : Construct(o, UnsubmittedRead_read_at(buf[1], off))

\* The reactor takes the operation: payload and transform are stored in flight.
Submit(o) ==
    /\ ops[o].st = "unsubmitted"
    /\ ops' = [ops EXCEPT ![o].st = "inflight"]
    /\ UNCHANGED <<rest, buf, dep, ctor, setPos, conv, mem, fdHandles, fdStrong, fdReleased>>

\* Mutant: the reactor runs the transform but keeps the operation in flight, so
\* a second completion runs it again.
CompleteKeepsInFlight(o) ==
    /\ ops[o].st = "inflight"
    /\ \E n \in KernelResults(ops[o]) :
        LET op == ops[o]
            out == transform_oneshot_output(op.transform, op.data[1], n)
        IN  ops' = [ops EXCEPT ![o] = [op EXCEPT !.calls = @ + 1, !.res = n, !.out = <<out>>]]
    /\ UNCHANGED <<rest, buf, dep, ctor, setPos, conv, mem, fdHandles, fdStrong, fdReleased>>

\* The completion arrives: the reactor hands payload and result to the
\* transform.  What the transform does not return is dropped when it returns.
Complete(o) ==
    /\ ops[o].st = "inflight"
    /\ \E n \in KernelResults(ops[o]) :
        LET op == ops[o]
            data == op.data[1]
            out == transform_oneshot_output(op.transform, data, n)
            unreturned == IF out.buf = <<>> THEN <<data.buf>> ELSE <<>>
        IN  /\ ops' = [ops EXCEPT ![o] = [op EXCEPT !.st = "completed", !.data = <<>>,
                                                    !.calls = @ + 1, !.res = n,
                                                    !.out = <<out>>]]
            /\ mem' = DropAll(mem, unreturned)
            /\ DropShared(Len(data._fd))
    /\ UNCHANGED <<rest, buf, dep, ctor, setPos, conv, fdHandles>>

\* An operation dropped before it was submitted: its payload is dropped.
DropUnsubmitted(o) ==
    /\ ops[o].st = "unsubmitted"
    /\ mem' = DropBuffer(mem, ops[o].data[1].buf)
    /\ DropShared(Len(ops[o].data[1]._fd))
    /\ ops' = [ops EXCEPT ![o] = NoOp]
    /\ UNCHANGED <<rest, buf, dep, ctor, setPos, conv, fdHandles>>

\* The caller takes the Buffer out of the outcome; the slot is free again.
TakeOutcome(o) ==
    /\ ops[o].st = "completed"
    /\ buf = <<>>
    /\ buf' = ops[o].out[1].buf
    /\ ops' = [ops EXCEPT ![o] = NoOp]
    /\ UNCHANGED <<rest, dep, ctor, setPos, conv, mem, fdHandles, fdStrong, fdReleased>>

\* ------------------------------------------- a transform on any raw result
\* cqe.result(): any i32.  The values at both ends of the range, broken pipe
\* (-32), and the values around zero.
I32Samples ==
    {I32Min, I32Min + 1, 0 - 32, I32Max} \cup ((0 - MaxErrno)..(MaxCap + 1))

\* transform_oneshot_output(self, data, cqe) on the payload made of the
\* caller's Buffer and on a completion whose result is n.  A transform that
\* panics has dropped the payload.
Transform(t, n) ==
    /\ buf # <<>>
    /\ xf = <<>>
    /\ LET data == StoredData(buf[1])
           out == transform_oneshot_output(t, data, n)
       IN  /\ xf' = <<[transform |-> t, n |-> n, arg |-> buf[1], out |-> out]>>
           /\ mem' = IF out.buf = <<>> THEN DropBuffer(mem, data.buf) ELSE mem
    /\ buf' = <<>>
    /\ dep' = <<>>
    /\ ctor' = "none"
    /\ setPos' = -1
    /\ UNCHANGED <<conv, ops, fdHandles, fdStrong, fdReleased, overflow_checks, driver>>

\* The caller takes the Buffer out of the transform's outcome.
TakeXf ==
    /\ xf # <<>>
    /\ buf = <<>>
    /\ buf' = xf[1].out.buf
    /\ xf' = <<>>
    /\ UNCHANGED <<dep, ctor, setPos, conv, ops, mem, fdHandles, fdStrong, fdReleased,
                   overflow_checks, driver>>

\* ------------------------------------------------------ driver and rings
\* The futures of tests/driver.rs, and the index of each one's operation.
Tasks == 1..MaxSpawn

\* A future: none yet; created ("spawned"); polled once with Pending as the
\* answer ("pending"); polled to Ready ("finished"); dropped ("dropped");
\* "failed" if the submission was refused.
NoTask == [kind |-> "none", st |-> "none", res |-> 0]

\* An entry of the driver's table.  lifecycle is that of the operation and
\* result what a completed operation keeps for its future; the other fields
\* count what happened to it: completions delivered, drops of its payload, and
\* whether its completion went through the overflow list.
NoEntry == [lifecycle |-> "Free", deliveries |-> 0, drops |-> 0, result |-> 0,
            overflowed |-> FALSE]

Cqe(user_data, result, overflowed) ==
    [user_data |-> user_data, result |-> result, overflowed |-> overflowed]

Range(q) == {q[k] : k \in 1..Len(q)}

\* Mutant: a completion that finds the completion ring full is dropped.
PostDropsWhenFull(u, user_data, result) ==
    IF Len(u.cq) < cqueue_entries
    THEN [u EXCEPT !.cq = Append(@, Cqe(user_data, result, FALSE))]
    ELSE u

\* The kernel posts a completion: into the completion ring, or, when the ring
\* is full, onto its overflow list.
Post(u, user_data, result) ==
    IF Len(u.cq) < cqueue_entries
    THEN [u EXCEPT !.cq = Append(@, Cqe(user_data, result, FALSE))]
    ELSE [u EXCEPT !.overflow = Append(@, Cqe(user_data, result, TRUE))]

\* The kernel, entered: completions of the overflow list move into the ring as
\* far as there is room.
FlushOverflow(u) ==
    LET k == Min(cqueue_entries - Len(u.cq), Len(u.overflow))
    IN  [u EXCEPT !.cq = @ \o SubSeq(u.overflow, 1, k),
                  !.overflow = SubSeq(u.overflow, k + 1, Len(u.overflow))]

\* The delivery of one completion to the operation it is tagged with.  A
\* waiting operation keeps the result for its future; an operation whose
\* future is gone leaves the table and its payload is dropped.
complete(sl, cqe) ==
    [sl EXCEPT ![cqe.user_data] =
        IF @.lifecycle = "Submitted"
        THEN [@ EXCEPT !.lifecycle = "Completed", !.deliveries = @ + 1,
                       !.result = cqe.result, !.overflowed = cqe.overflowed]
        ELSE IF @.lifecycle = "Ignored"
        THEN [@ EXCEPT !.lifecycle = "Free", !.deliveries = @ + 1, !.drops = @ + 1,
                       !.overflowed = cqe.overflowed]
        ELSE [@ EXCEPT !.deliveries = @ + 1]]

RECURSIVE dispatch_completions(_, _)
dispatch_completions(sl, cq) ==
    IF cq = <<>> THEN sl ELSE dispatch_completions(complete(sl, Head(cq)), Tail(cq))

\* The driver enters the kernel to submit; while the kernel answers that
\* completions are overflowing (EBUSY), the driver dispatches the completion
\* ring and enters again.  d is [uring, slab].
RECURSIVE submit(_)
submit(d) ==
    LET u == FlushOverflow(d.uring)
    IN  IF u.overflow = <<>>
        THEN [uring |-> [u EXCEPT !.inflight = @ \cup Range(u.sq), !.sq = <<>>],
              slab |-> d.slab]
        ELSE submit([uring |-> [u EXCEPT !.cq = <<>>],
                     slab |-> dispatch_completions(d.slab, u.cq)])

\* What the kernel reports: 0 for a no-op; for the write of "hello world" its
\* 11 bytes or an error.
Results(kind) == IF kind = "nop" THEN {0} ELSE {0 - 1, 11}

\* A future is created: all no-ops of completion_overflow, one after the
\* other; a write of too_many_submissions once the future before it is gone.
Spawn(i, kind) ==
    /\ rt = "running"
    /\ task[i].st = "none"
    /\ i > 1 => task[i - 1].st # "none"
    /\ i > 1 /\ kind = "write" => task[i - 1].st = "dropped"
    /\ task' = [task EXCEPT ![i] = [kind |-> kind, st |-> "spawned", res |-> 0]]
    /\ UNCHANGED <<core, uring, slab, rt>>

\* Mutant: a full submission ring is an error for the caller.
FirstPollFailsWhenFull(i) ==
    /\ rt = "running"
    /\ task[i].st = "spawned"
    /\ task[i].kind = "nop" => \A j \in Tasks : task[j].st # "none"
    /\ IF Len(uring.sq) = squeue_entries
       THEN /\ task' = [task EXCEPT ![i].st = "failed"]
            /\ UNCHANGED <<uring, slab>>
       ELSE /\ uring' = [uring EXCEPT !.sq = Append(@, i)]
            /\ slab' = [slab EXCEPT ![i].lifecycle = "Submitted"]
            /\ task' = [task EXCEPT ![i].st = "pending"]
    /\ UNCHANGED <<core, rt>>

\* The first poll of a future submits its operation: the entry is pushed on
\* the submission ring, after the ring was flushed to the kernel if it was
\* full, and the poll answers Pending.  The no-ops are polled when the main
\* future waits for them, all spawned.
FirstPoll(i) ==
    /\ rt = "running"
    /\ task[i].st = "spawned"
    /\ task[i].kind = "nop" => \A j \in Tasks : task[j].st # "none"
    /\ LET d0 == [uring |-> uring, slab |-> [slab EXCEPT ![i].lifecycle = "Submitted"]]
           d1 == IF Len(uring.sq) = squeue_entries THEN submit(d0) ELSE d0
       IN  /\ uring' = [d1.uring EXCEPT !.sq = Append(@, i)]
           /\ slab' = d1.slab
    /\ task' = [task EXCEPT ![i].st = "pending"]
    /\ UNCHANGED <<core, rt>>

\* poll_once is over: the future of a write is dropped with its operation in
\* the table.  An operation still waited for is from now on ignored; one that
\* completed meanwhile leaves the table and its payload is dropped.
DropFuture(i) ==
    /\ task[i].st = "pending"
    /\ task[i].kind = "write"
    /\ slab' = [slab EXCEPT ![i] =
                  IF @.lifecycle = "Submitted" THEN [@ EXCEPT !.lifecycle = "Ignored"]
                  ELSE [@ EXCEPT !.lifecycle = "Free", !.drops = @ + 1, !.result = 0]]
    /\ task' = [task EXCEPT ![i].st = "dropped"]
    /\ UNCHANGED <<core, uring, rt>>

\* The kernel finishes an operation it was given.
KernelComplete(i) ==
    /\ i \in uring.inflight
    /\ \E r \in Results(task[i].kind) :
        uring' = Post([uring EXCEPT !.inflight = @ \ {i}], i, r)
    /\ UNCHANGED <<core, slab, task, rt>>

\* The runtime, woken by the ring: the completions of the ring are dispatched.
Tick ==
    /\ rt # "stopped"
    /\ uring.cq # <<>>
    /\ slab' = dispatch_completions(slab, uring.cq)
    /\ uring' = [uring EXCEPT !.cq = <<>>]
    /\ UNCHANGED <<core, task, rt>>

\* The runtime, before it parks: what is on the submission ring is submitted.
Park ==
    /\ rt # "stopped"
    /\ uring.sq # <<>> \/ uring.overflow # <<>>
    /\ LET d == submit([uring |-> uring, slab |-> slab])
       IN  uring' = d.uring /\ slab' = d.slab
    /\ UNCHANGED <<core, task, rt>>

\* A future whose operation completed is polled again: it takes the result
\* and the operation leaves the table.
PollReady(i) ==
    /\ rt = "running"
    /\ task[i].st = "pending"
    /\ task[i].kind = "nop"
    /\ slab[i].lifecycle = "Completed"
    /\ task' = [task EXCEPT ![i].st = "finished", ![i].res = slab[i].result]
    /\ slab' = [slab EXCEPT ![i].lifecycle = "Free", ![i].result = 0]
    /\ UNCHANGED <<core, uring, rt>>

\* The main future returns: every future was joined or dropped.
Shutdown ==
    /\ rt = "running"
    /\ \A i \in Tasks : task[i].st \in {"finished", "dropped"}
    /\ rt' = "closing"
    /\ UNCHANGED <<core, uring, slab, task>>

\* The driver is dropped once no operation is left in its table.
Close ==
    /\ rt = "closing"
    /\ \A i \in Tasks : slab[i].lifecycle = "Free"
    /\ rt' = "stopped"
    /\ UNCHANGED <<core, uring, slab, task>>

\* ---------------------------------------------------------- specifications
Init ==
    /\ buf = <<>>
    /\ dep = <<>>
    /\ ctor = "none"
    /\ setPos = -1
    /\ conv = <<>>
    /\ ops = [o \in OpIds |-> NoOp]
    /\ mem = [a \in Addrs |-> IF a \in RawAddrs THEN [st |-> "ext", cap |-> 0] ELSE FreeMem]
    /\ fdHandles = 1
    /\ fdStrong = 1
    /\ fdReleased = 0
    /\ overflow_checks \in BOOLEAN
    /\ xf = <<>>
    /\ uring = [sq |-> <<>>, inflight |-> {}, cq |-> <<>>, overflow |-> <<>>]
    /\ slab = [i \in Tasks |-> NoEntry]
    /\ task = [i \in Tasks |-> NoTask]
    /\ rt = "running"

\* One Buffer at a time, of every shape, through its whole life.
Idle == conv = <<>> /\ \A o \in OpIds : ops[o].st = "none"

Next ==
    \/ Idle /\ \E s \in VecShapes : NewFromVec(s.len, s.cap)
    \/ Idle /\ \E shapes \in ShapeSeqs : NewFromVecs(shapes)
    \/ Idle /\ \E p \in RawAddrs, l \in 0..MaxCap : NewFromRawPtr(p, l)
    \/ Fill
    \/ buf # <<>> /\ \E pos \in 0..(bytes_total(buf[1]) + 1) : SetInit(pos)
    \/ DropBuf
    \/ \E to \in {"vec", "vecs"} : TryInto(to)
    \/ TakeConv
    \/ WriteAt(1)
    \/ ReadAt(1)
    \/ GenericWriteAt(1)
    \/ GenericReadAt(1)
    \/ Submit(1)
    \/ Complete(1)
    \/ DropUnsubmitted(1)
    \/ TakeOutcome(1)

Spec == Init /\ [][Next]_vars

\* Several operations on one descriptor while the caller clones and drops its
\* handles.  The Buffers are one-byte regions of caller-owned memory, so that
\* the states are those of the operations and of the handles.
NextFd ==
    \/ \E p \in RawAddrs : NewFromRawPtr(p, 1)
    \/ DropBuf
    \/ CloneFd
    \/ DropFd
    \/ \E o \in OpIds :
        \/ WriteAt(o)
        \/ ReadAt(o)
        \/ Submit(o)
        \/ Complete(o)
        \/ DropUnsubmitted(o)
        \/ TakeOutcome(o)

SpecFd == Init /\ [][NextFd]_vars

\* The three transforms on Buffers of every shape and on raw results from the
\* whole range of i32.
NextXf ==
    \/ xf = <<>> /\ \E s \in VecShapes : NewFromVec(s.len, s.cap)
    \/ xf = <<>> /\ \E shapes \in ShapeSeqs : NewFromVecs(shapes)
    \/ xf = <<>> /\ \E p \in RawAddrs, l \in 0..MaxCap : NewFromRawPtr(p, l)
    \/ DropBuf
    \/ \E t \in Transforms, n \in I32Samples : Transform(t, n)
    \/ TakeXf

SpecXf == Init /\ [][NextXf]_vars

\* The tests of the driver are built with overflow checks (the test profile).
InitTests == Init /\ overflow_checks = TRUE

\* completion_overflow: no-ops, all spawned and then waited for.  Neither the
\* kernel nor the runtime stops while one of them has something to do: the
\* kernel finishes what it was given, the runtime polls its futures,
\* dispatches completions and submits before it parks.
NextOverflow ==
    \/ \E i \in Tasks : Spawn(i, "nop")
    \/ \E i \in Tasks : FirstPoll(i)
    \/ \E i \in Tasks : KernelComplete(i)
    \/ Tick
    \/ Park
    \/ \E i \in Tasks : PollReady(i)
    \/ Shutdown
    \/ Close

SpecOverflow == InitTests /\ [][NextOverflow]_vars /\ WF_vars(NextOverflow)

\* too_many_submissions: writes, each polled once and dropped before the next.
NextSubmissions ==
    \/ \E i \in Tasks : Spawn(i, "write")
    \/ \E i \in Tasks : FirstPoll(i)
    \/ \E i \in Tasks : DropFuture(i)
    \/ \E i \in Tasks : KernelComplete(i)
    \/ Tick
    \/ Park
    \/ Shutdown
    \/ Close

SpecSubmissions == InitTests /\ [][NextSubmissions]_vars

\* ------------------------------------------------------------------ claims
\* Every Buffer that is alive, wherever it is held.
OpBuffers(o) ==
    (IF ops[o].data = <<>> THEN <<>> ELSE <<ops[o].data[1].buf>>)
    \o (IF ops[o].out = <<>> THEN <<>> ELSE ops[o].out[1].buf)

RECURSIVE OpsBuffersFrom(_)
OpsBuffersFrom(o) == IF o > MaxOps THEN <<>> ELSE OpBuffers(o) \o OpsBuffersFrom(o + 1)

LiveBuffers ==
    buf \o (IF conv = <<>> THEN <<>> ELSE conv[1].res.err) \o OpsBuffersFrom(1)

\* The same regions of memory, with the same finalizers: only the reported
\* lengths may differ.
SameRegions(b1, b2) ==
    /\ Len(b1.iovecs) = Len(b2.iovecs)
    /\ b1.state = b2.state
    /\ b1.iovecs_ptr = b2.iovecs_ptr
    /\ \A i \in 1..Len(b1.iovecs) : b1.iovecs[i].iov_base = b2.iovecs[i].iov_base

\* C1: whatever the completion result (negative, zero, positive) and whichever
\* transform (WriteTransform, ReadTransform, ReadWriteTransform as read or as
\* write), the outcome of a completed operation carries the Buffer the operation
\* was built with: the same regions, with their finalizers.
C1_BufferReturned ==
    \A o \in OpIds :
        ops[o].st = "completed" =>
            /\ Len(ops[o].out[1].buf) = 1
            /\ SameRegions(ops[o].out[1].buf[1], ops[o].arg[1])

C1_Witness ==
    \E o \in OpIds :
        /\ ops[o].st = "completed"
        /\ ops[o].transform = "ReadWrite_Read"
        /\ ops[o].res < 0
        /\ ~ops[o].out[1].ok
        /\ Len(ops[o].out[1].buf) = 1
        /\ BufferLen(ops[o].out[1].buf[1]) = 2

\* How many regions of live Buffers, with an owned array's finalizer, sit at
\* address a.
RegionsAt(b, a) ==
    Cardinality({i \in 1..Len(b.iovecs) :
                    b.iovecs[i].iov_base = a /\ b.state[i].dtor = "drop_vec"})

RECURSIVE HoldersIn(_, _)
HoldersIn(bs, a) ==
    IF bs = <<>> THEN 0 ELSE RegionsAt(Head(bs), a) + HoldersIn(Tail(bs), a)

Holders(a) == HoldersIn(LiveBuffers, a)

\* How many arrays handed back by the last conversion sit at address a.
HandedBack(a) ==
    IF conv = <<>> THEN 0
    ELSE Cardinality({i \in 1..Len(conv[1].res.vecs) : conv[1].res.vecs[i].ptr = a})

\* C2: the memory of an owned-array region is resolved exactly once.  No block
\* is ever finalized twice or with a wrong capacity ("bad"); a block suspended
\* in a Buffer is held by exactly one region of one live Buffer (so it is not
\* leaked and cannot be released twice); a block handed back by a successful
\* conversion is the caller's and no Buffer refers to it any more; and the
\* memory behind a raw pointer is never released by a Buffer.
C2_ReleasedExactlyOnce ==
    /\ \A a \in VecAddrs :
        /\ mem[a].st # "bad"
        /\ Holders(a) <= 1
        /\ (mem[a].st = "buffer") <=> (Holders(a) = 1)
        /\ (mem[a].st = "vec") <=> (HandedBack(a) = 1)
        /\ HandedBack(a) <= 1
    /\ \A a \in RawAddrs : mem[a] = [st |-> "ext", cap |-> 0]

C2_Witness ==
    /\ conv # <<>>
    /\ conv[1].res.ok
    /\ Len(conv[1].res.vecs) = 2
    /\ \A i \in 1..2 : mem[conv[1].res.vecs[i].ptr].st = "vec"
    /\ Holders(conv[1].res.vecs[1].ptr) = 0
    /\ bytes_init(conv[1].arg) = 3

Pending(o) == ops[o].st \in {"unsubmitted", "inflight"}

RECURSIVE ClonesFrom(_)
ClonesFrom(o) ==
    IF o > MaxOps THEN 0
    ELSE (IF ops[o].data = <<>> THEN 0 ELSE Len(ops[o].data[1]._fd)) + ClonesFrom(o + 1)

\* C3: an operation that has not completed holds exactly one clone of the
\* SharedFd, and while one does the descriptor is not released, whatever the
\* caller did with its own handles; the descriptor has been released (once)
\* exactly when no handle is left, neither with the caller nor in an operation.
C3_FdAliveWhileInFlight ==
    /\ \A o \in OpIds : Pending(o) => Len(ops[o].data[1]._fd) = 1 /\ fdReleased = 0
    /\ fdStrong = fdHandles + ClonesFrom(1)
    /\ fdReleased = (IF fdHandles + ClonesFrom(1) = 0 THEN 1 ELSE 0)

C3_Witness ==
    /\ fdHandles = 0
    /\ fdReleased = 0
    /\ \E o \in OpIds : ops[o].st = "inflight"
    /\ \E o \in OpIds : ops[o].st = "completed"

\* What C4 says of a state, and of a step.
C4_States ==
    \A o \in OpIds :
        /\ Pending(o) => ops[o].calls = 0 /\ Len(ops[o].data) = 1 /\ ops[o].out = <<>>
        /\ ops[o].st = "completed" =>
                ops[o].calls = 1 /\ ops[o].data = <<>> /\ Len(ops[o].out) = 1
        /\ ops[o].st = "none" => ops[o] = NoOp

C4_Step ==
    \A o \in OpIds :
        /\ ops[o].st = "unsubmitted" => ops'[o].st \in {"unsubmitted", "inflight", "none"}
        /\ ops[o].st = "inflight" => ops'[o].st \in {"inflight", "completed"}
        /\ ops[o].st = "completed" => ops'[o] = ops[o] \/ ops'[o] = NoOp
        /\ ops'[o].st = "unsubmitted" => ops[o].st \in {"none", "unsubmitted"}
        /\ ops'[o].calls # ops[o].calls /\ ops'[o].st # "none" =>
                /\ ops[o].st = "inflight"
                /\ ops'[o].st = "completed"
                /\ ops'[o].res \in KernelResults(ops[o])
                /\ ops'[o].out = <<transform_oneshot_output(ops[o].transform,
                                                            ops[o].data[1], ops'[o].res)>>

\* C4: an operation goes from unsubmitted (through the reactor) to completed
\* and nowhere else.  The transform has run exactly once on a completed
\* operation and not at all before; it takes the payload and the result
\* together, after which the payload is gone from the operation; a completed
\* operation never changes again, until the caller lets go of it.
C4_OneshotOnce == [](C4_States) /\ [][C4_Step]_vars

C4_Witness ==
    \E o \in OpIds :
        /\ ops[o].st = "completed"
        /\ ops[o].calls = 1
        /\ ops[o].data = <<>>
        /\ ops[o].transform = "Write"
        /\ ops[o].out[1].ok

\* C5: a Buffer built from one array converts back to that array (same
\* address, length, capacity); a Buffer built from a sequence of arrays converts
\* back to the same arrays in the same order.  ctor # "none" says that nothing
\* touched the Buffer between the two conversions.
C5_RoundTrip ==
    conv # <<>> =>
        /\ ctor = "vec" /\ conv[1].to = "vec" =>
                conv[1].res.ok /\ conv[1].res.vecs = dep /\ Len(dep) = 1
        /\ ctor = "vecs" /\ conv[1].to = "vecs" =>
                conv[1].res.ok /\ conv[1].res.vecs = dep

C5_Witness ==
    /\ conv # <<>>
    /\ ctor = "vecs"
    /\ conv[1].to = "vecs"
    /\ conv[1].res.ok
    /\ Len(dep) = 2
    /\ dep[1].len < dep[1].cap
    /\ dep[2].len = 1
    /\ conv[1].res.vecs[2] = dep[2]

\* C6: the conversion to one array succeeds exactly for a Buffer of one region
\* of owned-array provenance, the conversion to a sequence exactly when every
\* region is of owned-array provenance; a failed conversion returns, in the
\* error, the Buffer it was given, unchanged, and has consumed no region.
C6_ConversionFails ==
    conv # <<>> =>
        LET b == conv[1].arg
            r == conv[1].res
            allVec == \A i \in 1..Len(b.state) : b.state[i].source = "Vector"
        IN  /\ conv[1].to = "vec" => (r.ok <=> (Len(b.iovecs) = 1 /\ allVec))
            /\ conv[1].to = "vecs" => (r.ok <=> allVec)
            /\ ~r.ok =>
                /\ r.err = <<b>>
                /\ r.vecs = <<>>
                /\ \A i \in 1..Len(b.iovecs) :
                        b.state[i].source = "Vector" =>
                            mem[b.iovecs[i].iov_base] =
                                [st |-> "buffer", cap |-> b.state[i].total_bytes]

C6_Witness ==
    /\ conv # <<>>
    /\ conv[1].to = "vecs"
    /\ ~conv[1].res.ok
    /\ conv[1].arg.state[1].source = "RawPtr"
    /\ conv[1].res.err = <<conv[1].arg>>
    /\ bytes_init(conv[1].res.err[1]) = 1

\* Sums over the first i regions, of the reported lengths and of the capacities.
RECURSIVE LenSum(_, _)
LenSum(b, i) == IF i = 0 THEN 0 ELSE b.iovecs[i].iov_len + LenSum(b, i - 1)

RECURSIVE CapSum(_, _)
CapSum(b, i) == IF i = 0 THEN 0 ELSE b.state[i].total_bytes + CapSum(b, i - 1)

Max(a, b) == IF a >= b THEN a ELSE b

\* What region i reports after n bytes were read into regions of the
\* capacities of b: min(c_i, n - (c_1 + ... + c_(i-1))), floored at 0.
ExpectedInit(b, i, n) == Max(0, Min(b.state[i].total_bytes, n - CapSum(b, i - 1)))

\* C7: a read that completes with n >= 0 returns success(n) and a Buffer that
\* reports n initialized bytes in all, region i reporting
\* min(c_i, n - (c_1 + ... + c_(i-1))) floored at 0.  (The kernel reports at
\* most the length the submission asked for.)
C7_ReadSetsInit ==
    \A o \in OpIds :
        ops[o].st = "completed" /\ IsRead(ops[o].transform) /\ ops[o].res >= 0 =>
            LET b == ops[o].out[1].buf[1]
                a == ops[o].arg[1]
                n == ops[o].res
            IN  /\ ops[o].out[1].ok
                /\ ops[o].out[1].n = n
                /\ Len(b.iovecs) = Len(a.iovecs)
                /\ \A i \in 1..Len(b.iovecs) : b.iovecs[i].iov_len = ExpectedInit(a, i, n)
                /\ LenSum(b, Len(b.iovecs)) = n

C7_Witness ==
    \E o \in OpIds :
        /\ ops[o].st = "completed"
        /\ ops[o].transform = "ReadWrite_Read"
        /\ ops[o].res = 3
        /\ Len(ops[o].arg[1].state) = 2
        /\ \A i \in 1..2 : ops[o].arg[1].state[i].total_bytes = 2
        /\ ops[o].out[1].buf[1].iovecs[1].iov_len = 2
        /\ ops[o].out[1].buf[1].iovecs[2].iov_len = 1

\* C8 as claimed: a read built by read_write::Unsubmitted::read_at that fails
\* hands back the Buffer with the region count, addresses, reported lengths and
\* capacities the caller passed in.
C8_ReadFailureIntact ==
    \A o \in OpIds :
        ops[o].st = "completed" /\ ops[o].transform = "ReadWrite_Read" /\ ops[o].res < 0 =>
            LET b == ops[o].out[1].buf[1]
                a == ops[o].arg[1]
            IN  /\ Len(b.iovecs) = Len(a.iovecs)
                /\ \A i \in 1..Len(b.iovecs) :
                        /\ b.iovecs[i].iov_base = a.iovecs[i].iov_base
                        /\ b.iovecs[i].iov_len = a.iovecs[i].iov_len
                        /\ b.state[i].total_bytes = a.state[i].total_bytes

\* C9: a write returns its Buffer as it was given, for every result: success(n)
\* for n >= 0, the error -n otherwise; a Buffer of one owned array still
\* converts back to that array, with the length and capacity it had.
C9_WriteLeavesBuffer ==
    \A o \in OpIds :
        ops[o].st = "completed" /\ ops[o].transform \in {"ReadWrite_Write", "Write"} =>
            LET a == ops[o].arg[1]
                out == ops[o].out[1]
            IN  /\ out.buf = <<a>>
                /\ ops[o].res >= 0 => out.ok /\ out.n = ops[o].res
                /\ ops[o].res < 0 => ~out.ok /\ out.err = 0 - ops[o].res
                /\ Len(a.iovecs) = 1 /\ a.state[1].source = "Vector" =>
                        LET r == TryFromVec(out.buf[1])
                        IN  /\ r.ok
                            /\ r.vecs = <<Vec(a.iovecs[1].iov_base, a.iovecs[1].iov_len,
                                              a.state[1].total_bytes)>>

C9_Witness ==
    \E o \in OpIds :
        /\ ops[o].st = "completed"
        /\ ops[o].transform = "ReadWrite_Write"
        /\ ops[o].res = 2
        /\ ops[o].out[1].ok
        /\ ops[o].out[1].n = 2
        /\ Len(ops[o].arg[1].iovecs) = 1
        /\ ops[o].arg[1].state[1].source = "Vector"
        /\ ops[o].arg[1].iovecs[1].iov_len = 2
        /\ ops[o].out[1].buf = ops[o].arg

\* What C10 says of one Buffer b, after any constructor, fill and set_init
\* (also with an argument above the total capacity).
C10_BufferOk(b) ==
    /\ Len(b.iovecs) = Len(b.state)
    /\ bytes_init(b) = LenSum(b, Len(b.iovecs))
    /\ bytes_total(b) = CapSum(b, Len(b.state))
    /\ \A i \in 1..Len(b.iovecs) : b.iovecs[i].iov_len <= b.state[i].total_bytes
    /\ bytes_init(b) <= bytes_total(b)

\* C10, over every Buffer alive: bytes_init() and bytes_total() are the sums of
\* the reported lengths and of the capacities, each region's reported length is
\* at most its capacity, and bytes_init() <= bytes_total().
C10_InitWithinTotal == \A k \in 1..Len(LiveBuffers) : C10_BufferOk(LiveBuffers[k])

C10_Witness ==
    /\ buf # <<>>
    /\ BufferLen(buf[1]) = 2
    /\ setPos > bytes_total(buf[1])
    /\ bytes_total(buf[1]) = 3
    /\ bytes_init(buf[1]) = 3

\* The payload addresses of the regions of b.
Bases(b) == {b.iovecs[i].iov_base : i \in 1..Len(b.iovecs)}

Scalar(sqe) == sqe.opcode \in {"Write", "Read"}

\* C11: an operation built by write_at or read_at carries the scalar opcode
\* (Write, Read) exactly when its Buffer has one region, and then the address
\* is that region's payload address, not the descriptor list's; otherwise it
\* carries the vectored opcode (Writev, Readv) with the address of the
\* descriptor list, which is no region's payload address, and the region count.
C11_OpcodeSelection ==
    \A o \in OpIds :
        ops[o].st # "none" /\ ops[o].transform \in {"ReadWrite_Write", "ReadWrite_Read"} =>
            LET a == ops[o].arg[1]
                sqe == ops[o].sqe[1]
                write == ops[o].transform = "ReadWrite_Write"
            IN  /\ Scalar(sqe) <=> (BufferLen(a) = 1)
                /\ Scalar(sqe) =>
                    /\ sqe.opcode = (IF write THEN "Write" ELSE "Read")
                    /\ sqe.addr = a.iovecs[1].iov_base
                    /\ sqe.addr # a.iovecs_ptr
                    /\ sqe.len \in {bytes_init(a), bytes_total(a)}
                /\ ~Scalar(sqe) =>
                    /\ sqe.opcode = (IF write THEN "Writev" ELSE "Readv")
                    /\ sqe.addr = a.iovecs_ptr
                    /\ sqe.addr \notin Bases(a)
                    /\ sqe.len = BufferLen(a)

C11_Witness ==
    \E o \in OpIds :
        /\ ops[o].st = "inflight"
        /\ ops[o].transform = "ReadWrite_Read"
        /\ ops[o].sqe[1].opcode = "Readv"
        /\ ops[o].sqe[1].len = 2
        /\ ops[o].sqe[1].addr = ops[o].arg[1].iovecs_ptr
        /\ BufferLen(ops[o].arg[1]) = 2

\* C12: while an operation built by write_at or read_at holds its payload, a
\* write's scalar length is bytes_init() of the Buffer it was given and every
\* region descriptor of the stored Buffer has the length the caller's region
\* had; a read's scalar length is bytes_total() and every region descriptor of
\* the stored Buffer has its region's capacity as length.
C12_ExtentAtConstruction ==
    \A o \in OpIds :
        Pending(o) /\ ops[o].transform \in {"ReadWrite_Write", "ReadWrite_Read"} =>
            LET a == ops[o].arg[1]
                d == ops[o].data[1].buf
                sqe == ops[o].sqe[1]
            IN  /\ Len(d.iovecs) = Len(a.iovecs)
                /\ ops[o].transform = "ReadWrite_Write" =>
                    /\ Scalar(sqe) => sqe.len = bytes_init(a)
                    /\ \A i \in 1..Len(d.iovecs) : d.iovecs[i].iov_len = a.iovecs[i].iov_len
                /\ ops[o].transform = "ReadWrite_Read" =>
                    /\ Scalar(sqe) => sqe.len = bytes_total(a)
                    /\ \A i \in 1..Len(d.iovecs) :
                            d.iovecs[i].iov_len = a.state[i].total_bytes

C12_Witness ==
    \E o \in OpIds :
        /\ ops[o].st = "unsubmitted"
        /\ ops[o].transform = "ReadWrite_Read"
        /\ BufferLen(ops[o].arg[1]) = 2
        /\ bytes_init(ops[o].arg[1]) = 0
        /\ bytes_total(ops[o].arg[1]) = 3
        /\ ops[o].data[1].buf.iovecs[1].iov_len + ops[o].data[1].buf.iovecs[2].iov_len = 3

\* C13: for every Buffer alive, stable_ptr() and stable_mut_ptr() are the
\* payload address of the region if there is exactly one, and the address of
\* the descriptor list, which is no region's payload address, if there are
\* more.
C13_StablePtr ==
    \A k \in 1..Len(LiveBuffers) :
        LET b == LiveBuffers[k]
        IN  /\ BufferLen(b) = 1 =>
                /\ stable_ptr(b) = b.iovecs[1].iov_base
                /\ stable_mut_ptr(b) = b.iovecs[1].iov_base
            /\ BufferLen(b) > 1 =>
                /\ stable_ptr(b) = b.iovecs_ptr
                /\ stable_mut_ptr(b) = b.iovecs_ptr
                /\ stable_ptr(b) \notin Bases(b)
                /\ stable_mut_ptr(b) \notin Bases(b)

C13_Witness ==
    /\ buf # <<>>
    /\ BufferLen(buf[1]) = 2
    /\ buf[1].state[2].source = "Vector"
    /\ stable_ptr(buf[1]) = buf[1].iovecs_ptr
    /\ stable_ptr(buf[1]) # buf[1].iovecs[1].iov_base
    /\ stable_ptr(buf[1]) # buf[1].iovecs[2].iov_base

\* C17: the address in the submission descriptor is the stable_ptr() of the
\* Buffer the operation stores while it is pending, and of the Buffer the
\* transform hands back; the descriptor list of that Buffer is at the address
\* and has the region count it had when the caller passed the Buffer in.
C17_StableWhileInFlight ==
    \A o \in OpIds :
        ops[o].st # "none" =>
            LET held == OpBuffers(o)
                a == ops[o].arg[1]
            IN  /\ Len(held) = 1
                /\ stable_ptr(held[1]) = ops[o].sqe[1].addr
                /\ stable_mut_ptr(held[1]) = ops[o].sqe[1].addr
                /\ held[1].iovecs_ptr = a.iovecs_ptr
                /\ BufferLen(held[1]) = BufferLen(a)

C17_Witness ==
    \E o \in OpIds :
        /\ ops[o].st = "completed"
        /\ ops[o].transform = "ReadWrite_Read"
        /\ ops[o].res = 1
        /\ ops[o].sqe[1].opcode = "Readv"
        /\ bytes_init(ops[o].arg[1]) = 0
        /\ bytes_init(ops[o].out[1].buf[1]) = 1
        /\ stable_ptr(ops[o].out[1].buf[1]) = ops[o].sqe[1].addr

\* Entry i of the metadata describes the block entry i of the descriptors
\* points at: an owned array's block, suspended, of the recorded capacity, with
\* drop_vec as finalizer; or caller-owned memory with drop_raw_ptr.
Aligned(b) ==
    /\ Len(b.iovecs) = Len(b.state)
    /\ \A i \in 1..Len(b.iovecs) :
        /\ b.state[i].source = "Vector" =>
            /\ b.state[i].dtor = "drop_vec"
            /\ b.iovecs[i].iov_base \in VecAddrs
            /\ mem[b.iovecs[i].iov_base] = [st |-> "buffer", cap |-> b.state[i].total_bytes]
        /\ b.state[i].source = "RawPtr" =>
            /\ b.state[i].dtor = "drop_raw_ptr"
            /\ b.iovecs[i].iov_base \in RawAddrs
        /\ b.state[i].source \in {"Vector", "RawPtr"}

\* C18: in every Buffer alive, the descriptor sequence and the metadata
\* sequence have the same length and entry i of the one describes the region
\* of entry i of the other.
C18_SequencesAligned == \A k \in 1..Len(LiveBuffers) : Aligned(LiveBuffers[k])

C18_Witness ==
    /\ buf # <<>>
    /\ ctor = "none"
    /\ BufferLen(buf[1]) = 2
    /\ buf[1].state[1].total_bytes = 1
    /\ buf[1].state[2].total_bytes = 2
    /\ mem[buf[1].iovecs[1].iov_base].cap = 1
    /\ mem[buf[1].iovecs[2].iov_base].cap = 2
    /\ bytes_init(buf[1]) = 2

\* What C19 says of a step: a step that changes the Buffer the caller holds
\* (fill, set_init) leaves the region count, every base address, capacity,
\* provenance and finalizer and the memory as they were; the destructor then
\* releases every owned block, and a conversion returns every block with the
\* address and capacity of its region.
C19_Step ==
    /\ buf # <<>> /\ buf' # <<>> =>
        /\ SameRegions(buf[1], buf'[1])
        /\ buf' # buf => mem' = mem
    /\ buf # <<>> /\ buf' = <<>> /\ conv' = conv /\ ops' = ops =>
        \A i \in 1..Len(buf[1].iovecs) :
            buf[1].state[i].source = "Vector" => mem'[buf[1].iovecs[i].iov_base] = FreeMem
    /\ conv = <<>> /\ conv' # <<>> /\ conv'[1].res.ok =>
            \A i \in 1..Len(buf[1].iovecs) :
                /\ conv'[1].res.vecs[i].ptr = buf[1].iovecs[i].iov_base
                /\ conv'[1].res.vecs[i].cap = buf[1].state[i].total_bytes
                /\ mem'[buf[1].iovecs[i].iov_base] =
                        [st |-> "vec", cap |-> buf[1].state[i].total_bytes]

\* C19: fill and set_init change only the reported lengths of the regions, so
\* that the destructor or a later conversion releases each region with its
\* original address and capacity.
C19_LengthsOnly == [][C19_Step]_vars

C19_Witness ==
    /\ buf # <<>>
    /\ setPos = 1
    /\ BufferLen(buf[1]) = 2
    /\ \A i \in 1..2 : buf[1].state[i] = BufferState(2, "drop_vec", "Vector")
    /\ buf[1].iovecs[1].iov_len = 1
    /\ buf[1].iovecs[2].iov_len = 0

\* What C16 says of one transform applied to the raw result n.
C16_Maps(r) ==
    /\ r.n >= 0 => r.out.ok /\ r.out.n = r.n /\ ~r.out.panic
    /\ r.n < 0 =>
        /\ ~r.out.ok
        /\ ~r.out.panic
        /\ r.out.err > 0
        /\ r.out.err - 1 = (0 - 1) - r.n

\* C16 as claimed: for every raw result n of the i32 range, -2^31 included,
\* each transform yields success(n) when n >= 0 and a failure whose error code
\* is the negation of n when n < 0.
C16_EveryResult == xf # <<>> => C16_Maps(xf[1])

\* C16, amended: the same for every n of the i32 range but -2^31; at
\* n = -2^31 the negation does not fit an i32: the transform panics where
\* overflows are checked, and elsewhere yields a failure with the code -2^31
\* and the Buffer.
C16_ResultMapping ==
    xf # <<>> =>
        /\ xf[1].n # I32Min => C16_Maps(xf[1])
        /\ xf[1].n = I32Min /\ overflow_checks => xf[1].out = Panicked
        /\ xf[1].n = I32Min /\ ~overflow_checks =>
            /\ ~xf[1].out.ok
            /\ xf[1].out.err = I32Min
            /\ xf[1].out.buf = <<xf[1].arg>>

C16_Witness ==
    /\ xf # <<>>
    /\ xf[1].n = I32Min + 1
    /\ xf[1].transform = "Read"
    /\ ~xf[1].out.ok
    /\ xf[1].out.err = I32Max
    /\ Len(xf[1].out.buf) = 1

\* Where the operation of index i is: how many times it is on the submission
\* ring, with the kernel, in the completion ring and on the overflow list.
Occurrences(q, i) == Cardinality({k \in 1..Len(q) : q[k] = i})

Completions(q, i) == Cardinality({k \in 1..Len(q) : q[k].user_data = i})

Places(i) ==
    Occurrences(uring.sq, i) + (IF i \in uring.inflight THEN 1 ELSE 0)
    + Completions(uring.cq, i) + Completions(uring.overflow, i)

\* What C14 says of a state: no operation gets a second completion; a future
\* that finished got its operation's one completion, a success; and the
\* runtime has stopped only with every future finished.
C14_States ==
    \A i \in Tasks :
        /\ slab[i].deliveries <= 1
        /\ Places(i) + slab[i].deliveries <= 1
        /\ task[i].st = "finished" => slab[i].deliveries = 1 /\ task[i].res >= 0
        /\ rt = "stopped" => task[i].st = "finished"

\* C14: with more operations in flight than the completion ring has entries,
\* every operation submitted gets its completion, once, and its future
\* finishes with success; the runtime comes to its end, no operation is left
\* pending for ever.
C14_NoCompletionLost == [](C14_States) /\ <>[](rt = "stopped")

C14_Witness ==
    /\ rt = "stopped"
    /\ \A i \in Tasks : task[i].st = "finished" /\ task[i].kind = "nop"
    /\ \E i \in Tasks : slab[i].overflowed
    /\ \A i \in Tasks : slab[i].deliveries = 1

\* What C15 says of a state: no submission was refused; an operation whose
\* future was polled is in exactly one place or has had its completion; the
\* runtime has stopped only with every operation completed, out of the table,
\* its payload dropped once, and the rings empty.
C15_States ==
    /\ \A i \in Tasks :
        /\ task[i].st # "failed"
        /\ task[i].st \in {"pending", "dropped"} => Places(i) + slab[i].deliveries = 1
        /\ slab[i].drops <= 1
    /\ rt = "stopped" =>
        /\ \A i \in Tasks :
            /\ task[i].st = "dropped"
            /\ slab[i] = [NoEntry EXCEPT !.deliveries = 1, !.drops = 1,
                                         !.overflowed = slab[i].overflowed]
        /\ uring = [sq |-> <<>>, inflight |-> {}, cq |-> <<>>, overflow |-> <<>>]

\* What C15 says of a step: the first poll of a future answers Pending, with
\* the operation on the submission ring.
C15_Step ==
    \A i \in Tasks :
        task[i].st = "spawned" /\ task'[i].st # "spawned" =>
            /\ task'[i].st = "pending"
            /\ Occurrences(uring'.sq, i) = 1
            /\ Len(uring'.sq) <= squeue_entries

\* C15: submitting more operations than the submission ring has entries never
\* fails: each submission is accepted and its first poll answers Pending, also
\* when the futures of all operations before it were dropped with their
\* operations in flight; and the runtime shuts down with nothing left behind.
C15_SubmissionsAccepted == [](C15_States) /\ [][C15_Step]_vars

C15_Witness ==
    /\ rt = "stopped"
    /\ \A i \in Tasks : task[i].st = "dropped" /\ task[i].kind = "write"
    /\ \A i \in Tasks : slab[i].deliveries = 1 /\ slab[i].drops = 1
    /\ \E i \in Tasks : slab[i].overflowed
    /\ uring.cq = <<>>

====
